---- MODULE Spec2Model ----
(***************************************************************************)
(* Model of file_watcher/scripts/file_watcher.py: the FileManager class    *)
(* (path derivation, upload with collision handling, archive move, the     *)
(* per-file advisory lock and the polling loop).                           *)
(*                                                                         *)
(* A Python str is a sequence of one-character strings, so that replace,   *)
(* split, startswith, "in" and the regular expressions are computed the    *)
(* way the code computes them.  Python None is the one-element sequence    *)
(* PyNone, which no character sequence equals.                             *)
(***************************************************************************)
EXTENDS Integers, Sequences, FiniteSets, TLC

\* ------------------------------------------------------------------ bounds
\* watcher processes running start() against the same source tree
NumWatchers == 2

\* frames upload_to_gcs may recurse before Python's RecursionError
RecursionLimit == 2

\* files the producers have not left complete, unlocked and writable
MaxOddFiles == 1

\* segments of a path below the source root given to the path derivation
MaxSegs == 3

\* ------------------------------------------------------------ Python str
PyNone == <<"None">>
TypeError == <<"TypeError">>
AttributeError == <<"AttributeError">>
BlockingIOError == <<"BlockingIOError">>
OSError == <<"OSError">>
RecursionError == <<"RecursionError">>
InterruptedError == <<"InterruptedError">>
KeyboardInterrupt == <<"KeyboardInterrupt">>

\* the classes above that derive from Exception; KeyboardInterrupt derives
\* from BaseException only
ExceptionClasses == {TypeError, AttributeError, BlockingIOError, OSError, RecursionError, InterruptedError}

\* `not x` for x a str or None
Falsy(s) == s = PyNone \/ s = <<>>

IsStr(s) == s # PyNone /\ s # TypeError /\ s # RecursionError

StartsWith(s, pre) == Len(pre) <= Len(s) /\ SubSeq(s, 1, Len(pre)) = pre

EndsWith(s, suf) == Len(suf) <= Len(s) /\ SubSeq(s, Len(s) - Len(suf) + 1, Len(s)) = suf

\* the positions at which sub occurs in s
Occurrences(s, sub) == {i \in 1..(Len(s) - Len(sub) + 1) : SubSeq(s, i, i + Len(sub) - 1) = sub}

\* `sub in s`
Contains(s, sub) == Occurrences(s, sub) # {}

Min(S) == CHOOSE x \in S : \A y \in S : x <= y

Max(S) == CHOOSE x \in S : \A y \in S : y <= x

\* the first position >= from at which sub occurs in s, 0 when there is none
NextOcc(s, sub, from) ==
    IF \E i \in Occurrences(s, sub) : i >= from
    THEN Min({i \in Occurrences(s, sub) : i >= from})
    ELSE 0

\* In the operators below a value that is used more than once is bound by a
\* one-element set ({e : x \in {v}}), so that it is evaluated once.

\* s[from..] with the leftmost non-overlapping occurrences of old replaced
RECURSIVE StrReplaceFrom(_, _, _, _)
StrReplaceFrom(s, old, new, from) ==
    CHOOSE r \in { IF i = 0 THEN SubSeq(s, from, Len(s))
                   ELSE SubSeq(s, from, i - 1) \o new \o StrReplaceFrom(s, old, new, i + Len(old))
                   : i \in {NextOcc(s, old, from)} } : TRUE

\* str.replace(old, new), old non-empty
StrReplace(str, old, new) ==
    IF old = <<>> THEN str
    ELSE CHOOSE r \in {StrReplaceFrom(s, old, new, 1) : s \in {str}} : TRUE

\* the k-th smallest element of a set of numbers
Nth(S, k) == CHOOSE x \in S : Cardinality({y \in S : y < x}) = k - 1

\* the pieces of s between the positions in cuts
Pieces(s, cuts) ==
    [k \in 1..(Cardinality(cuts) + 1) |->
        SubSeq(s,
               (IF k = 1 THEN 0 ELSE Nth(cuts, k - 1)) + 1,
               (IF k = Cardinality(cuts) + 1 THEN Len(s) + 1 ELSE Nth(cuts, k)) - 1)]

\* str.split(sep) for a one-character sep: always at least one piece
StrSplit(str, sep) ==
    CHOOSE r \in {Pieces(s, cuts) : s \in {str}, cuts \in {Occurrences(str, <<sep>>)}} : TRUE

\* sep.join(parts)
RECURSIVE JoinFrom(_, _, _)
JoinFrom(parts, sep, k) ==
    IF k > Len(parts) THEN <<>>
    ELSE IF k = Len(parts) THEN parts[k]
    ELSE parts[k] \o <<sep>> \o JoinFrom(parts, sep, k + 1)

StrJoin(seq, sep) == CHOOSE r \in {JoinFrom(parts, sep, 1) : parts \in {seq}} : TRUE

\* str.lower() on the letters the model uses in upper case
LowerChar(c) == IF c = "F" THEN "f" ELSE IF c = "T" THEN "t" ELSE c

StrLower(s) == [i \in 1..Len(s) |-> LowerChar(s[i])]

\* the regular expression class \w
IsWordChar(c) == c \notin {".", "/", "-", "\\"}

\* the length of s.rstrip("/")
RStripLen(s) == IF \E i \in 1..Len(s) : s[i] # "/" THEN Max({i \in 1..Len(s) : s[i] # "/"}) ELSE 0

\* ------------------------------------------------------------- os.path
\* index of the last "/" of p, 0 when there is none
LastSlash(p) == IF Occurrences(p, <<"/">>) = {} THEN 0 ELSE Max(Occurrences(p, <<"/">>))

\* os.path.basename
Basename(path) == CHOOSE r \in {SubSeq(p, i + 1, Len(p)) : p \in {path}, i \in {LastSlash(path)}} : TRUE

\* os.path.dirname: the head up to the last "/", its trailing slashes
\* stripped unless it is slashes only
Dirname(path) ==
    CHOOSE r \in { IF RStripLen(head) > 0 THEN SubSeq(head, 1, RStripLen(head)) ELSE head
                   : head \in {SubSeq(path, 1, LastSlash(path))} } : TRUE

\* os.path.join(a, b)
OsPathJoin(a, b) ==
    IF StartsWith(b, <<"/">>) THEN b
    ELSE IF a = <<>> \/ EndsWith(a, <<"/">>) THEN a \o b
    ELSE a \o <<"/">> \o b

\* ------------------------------------------------------- the file system
\* A location is where a regular file lives: the path segments from the
\* root of the file system.  Gone is no location.
Gone == [abs |-> FALSE, segs |-> <<>>]

\* the working directory the watcher is started in, as path segments
Cwd == << <<"w">> >>

\* the location a path string names: a relative path is taken from the
\* working directory ("." and empty segments dropped)
Resolve(p) ==
    [abs |-> TRUE,
     segs |-> (IF StartsWith(p, <<"/">>) THEN <<>> ELSE Cwd)
              \o SelectSeq(StrSplit(p, "/"), LAMBDA g : g # <<>> /\ g # <<".">>)]

IsPrefix(a, b) == Len(a) <= Len(b) /\ SubSeq(b, 1, Len(a)) = a

\* location l lies in the tree rooted at location root
Under(l, root) == l # Gone /\ l.abs = root.abs /\ IsPrefix(root.segs, l.segs) /\ Len(l.segs) > Len(root.segs)

\* the files of the model, by where they are first written under the source root
FileIds == {"FA", "FB", "FH"}

RelSegs(f) ==
    CASE f = "FA" -> << <<"f", "i", "l", "e", "_", "t", "y", "p", "e">>, <<"a", ".", "c">> >>
      [] f = "FB" -> << <<"d">>, <<"a", ".", "c">> >>
      [] f = "FH" -> << <<".", "f", "i", "l", "e", "_", "t", "y", "p", "e">> >>

\* command-line arguments the model draws the configuration from
SrcArgs == { <<".", "/", "s">>, <<"/", "s">> }

ArchiveArgs == { <<"/", "a">>, <<".", "/", "s", "/", "d">>, <<"/", "w", "/", "s", "/", "d">> }

FileTypeArgs == { PyNone, <<"f", "t">> }

\* uuid4().hex, drawn from two tokens
Uuids == { <<"0">>, <<"1">> }

VARIABLES
    cfg,        \* FileManager fields: src_path, archive_path, file_type
    loc,        \* loc[f]: where file f lives now (Gone when destroyed)
    fsize,      \* fsize[f]: st_size of f
    readonly,   \* files open(path, "rb+") is refused for
    lock,       \* lock[f]: who holds the flock on f
    store,      \* the destination bucket
    walk_order, \* the order in which os.walk lists the files
    pc,         \* pc[p]: where watcher p is in start()
    queue,      \* queue[p]: candidate paths of this tick not yet handed
    cur,        \* cur[p]: the file object _file_lock holds open
    leaked,     \* leaked[p]: files with a handle never closed, not yet collected
    cands,      \* cands[p]: the paths that passed _filter_filename this tick
    handed,     \* handed[p]: the paths handed to handle_event this tick
    last,       \* last[p]: path and result of p's last processing attempt
    call        \* call[p]: the direct call of a public method p is in

vars == <<cfg, loc, fsize, readonly, lock, store, walk_order, pc, queue, cur, leaked, cands, handed, last, call>>

Procs == 1..NumWatchers

\* FileManager.__init__
FileManager(src_arg, archive_arg, file_type) ==
    [src_path |-> OsPathJoin(src_arg, <<>>),
     archive_path |-> OsPathJoin(archive_arg, <<>>),
     file_type |-> file_type]

\* ---------------------------------------------------- path derivation
ExtrApply(extr_f, ps) ==
    CASE extr_f = "s[0]" -> ps[1]
      [] extr_f = "join(s[1:])" -> StrJoin(Tail(ps), "/")
      [] extr_f = "join(s)" -> StrJoin(ps, "/")

_extract(file_path, extr_f, gt_l) ==
    IF Falsy(file_path) THEN PyNone
    ELSE CHOOSE r \in { IF Len(ps) > 0 /\ Len(ps) > gt_l /\ ~Falsy(ExtrApply(extr_f, ps))
                        THEN ExtrApply(extr_f, ps)
                        ELSE PyNone
                        : ps \in {StrSplit(StrReplace(file_path, cfg.src_path, <<>>), "/")} } : TRUE

_extract_org_path(file_path) ==
    IF ~Falsy(file_path) /\ cfg.file_type # PyNone THEN cfg.file_type
    ELSE _extract(file_path, "s[0]", 1)

_extract_filepath_from_org(file_path) ==
    CHOOSE r \in { IF ~Falsy(s) THEN s ELSE _extract(file_path, "join(s)", 0)
                   : s \in {_extract(file_path, "join(s[1:])", 0)} } : TRUE

\* the matches of r"\..+\.gz": a match starts at a "." and, greedy, runs to
\* the last ".gz" that leaves at least one character in between
GzStarts(s) == {i \in 1..Len(s) : s[i] = "." /\ \E j \in Occurrences(s, <<".", "g", "z">>) : j >= i + 2}

\* the match of r"\.\w+$": the "." after which only word characters follow
ExtStarts(s) == {i \in 1..(Len(s) - 1) : s[i] = "." /\ \A k \in (i + 1)..Len(s) : IsWordChar(s[k])}

\* returns <<name without extension, extension>> or None
_replace_extensions(file_name) ==
    IF Falsy(file_name) THEN PyNone
    ELSE IF GzStarts(file_name) # {}
    THEN LET i == Min(GzStarts(file_name))
             j == Max(Occurrences(file_name, <<".", "g", "z">>))
         IN << SubSeq(file_name, 1, i - 1) \o SubSeq(file_name, j + 3, Len(file_name)),
               SubSeq(file_name, i, j + 2) >>
    ELSE IF EndsWith(file_name, <<".", "g", "z">>)
    THEN << SubSeq(file_name, 1, Len(file_name) - 3), <<".", "g", "z">> >>
    ELSE IF ExtStarts(file_name) # {}
    THEN LET i == Min(ExtStarts(file_name))
         IN << SubSeq(file_name, 1, i - 1), SubSeq(file_name, i, Len(file_name)) >>
    ELSE PyNone

\* generated_uuid stands for uuid4().hex; the result is TypeError when the
\* unpacking of _replace_extensions' None raises
_add_uuid_to_filename(file_path, generated_uuid) ==
    IF Falsy(file_path) THEN PyNone
    ELSE LET file_name == Basename(file_path)
         IN CHOOSE v \in { IF r = PyNone THEN TypeError
                           ELSE new_file_path \o <<"/">> \o r[1] \o <<"_">> \o generated_uuid \o <<"-">> \o r[2]
                           : new_file_path \in {Dirname(file_name)},
                             r \in {_replace_extensions(Dirname(file_name))} } : TRUE

\* TypeError when org + "/" + None raises
_build_tgt_path(file_path) ==
    CHOOSE r \in { IF Falsy(org) THEN rest
                   ELSE IF rest = PyNone THEN TypeError
                   ELSE org \o <<"/">> \o rest
                   : org \in {_extract_org_path(file_path)},
                     rest \in {_extract_filepath_from_org(file_path)} } : TRUE

input_path(source_path) ==
    Contains(StrLower(source_path), <<"f", "i", "l", "e", "_", "t", "y", "p", "e">>)

\* re.match(r".+\..+$", s)
LooksLikeFile(s) == \E i \in 2..(Len(s) - 1) : s[i] = "."

_filter_filename(file_path) ==
    /\ ~Falsy(file_path)
    /\ LooksLikeFile(file_path)
    /\ ~Contains(file_path, cfg.archive_path)
    /\ StartsWith(file_path, <<".">>)

\* the path os.walk(src_path) gives for file f in _process_all_files:
\* root + "/" + filename, root being src_path joined with the directories
RECURSIVE WalkRoot(_, _)
WalkRoot(top, dirs) == IF dirs = <<>> THEN top ELSE WalkRoot(OsPathJoin(top, Head(dirs)), Tail(dirs))

WalkPath(f) ==
    CHOOSE r \in { StrReplace(WalkRoot(cfg.src_path, SubSeq(rel, 1, Len(rel) - 1)), <<"\\">>, <<"/">>)
                     \o <<"/">> \o rel[Len(rel)]
                   : rel \in {SubSeq(loc[f].segs, Len(Resolve(cfg.src_path).segs) + 1, Len(loc[f].segs))} } : TRUE

\* the regular files os.walk(src_path) enumerates
Walked == UNION {{f \in FileIds : Under(loc[f], root)} : root \in {Resolve(cfg.src_path)}}

\* the file that lives at the location a path string names (a set: empty or one)
FileAt(path) == UNION {{f \in FileIds : loc[f] # Gone /\ loc[f] = l} : l \in {Resolve(path)}}

\* ------------------------------------------------------ the object store
\* objs: the objects of the bucket, each a key and the file whose content
\* it holds.  stub: the existence check answers True to the first key asked
\* and False afterwards (asked), whatever the bucket holds.  clobbered: an
\* upload has replaced an object.
EmptyStore == [objs |-> {}, stub |-> FALSE, asked |-> FALSE, clobbered |-> FALSE]

_gcs_file_exists(st, prefix) ==
    IF st.stub THEN ~st.asked ELSE \E o \in st.objs : o.key = prefix

StoreAsked(st) == [st EXCEPT !.asked = TRUE]

\* upload_to_gcs up to the try block: the key the upload is attempted under
\* (key) or the exception that ends the call (exc), and the store after the
\* existence checks.  us: the values uuid4().hex takes, one per frame.
RECURSIVE upload_to_gcs(_, _, _, _, _)
upload_to_gcs(fd, object, tgt_path, st, us) ==
    CHOOSE r \in {
        IF ~IsStr(key) THEN [exc |-> TypeError, key |-> PyNone, st |-> st]
        ELSE IF _gcs_file_exists(st, key)
        THEN IF _add_uuid_to_filename(key, Head(us)) = TypeError
             THEN [exc |-> TypeError, key |-> PyNone, st |-> StoreAsked(st)]
             ELSE IF Len(us) = 1
             THEN [exc |-> RecursionError, key |-> PyNone, st |-> StoreAsked(st)]
             ELSE upload_to_gcs(fd, _add_uuid_to_filename(key, Head(us)), PyNone, StoreAsked(st), Tail(us))
        ELSE [exc |-> PyNone, key |-> key, st |-> StoreAsked(st)]
        : key \in {IF Falsy(tgt_path) THEN _build_tgt_path(fd.name) ELSE tgt_path} } : TRUE

\* the try block of upload_to_gcs: blob(tgt_path).upload_from_file(fd), which
\* writes the object whether or not the key holds one; ok: the store accepts it
blob_upload(st, key, file, ok) ==
    IF ok
    THEN [ret |-> "True",
          st |-> [st EXCEPT !.objs = {o \in @ : o.key # key} \cup {[key |-> key, file |-> file]},
                            !.clobbered = @ \/ \E o \in st.objs : o.key = key]]
    ELSE [ret |-> "False", st |-> st]

\* -------------------------------------------------------------- archive
\* shutil.move of file f onto the location of tgt: f takes the place of the
\* file that was there
MoveTo(f, tgt) ==
    [g \in FileIds |->
        IF g = f THEN Resolve(tgt)
        ELSE IF loc[g] = Resolve(tgt) THEN Gone
        ELSE loc[g]]

\* mk_ok: os.makedirs succeeds; mv_ok: shutil.move succeeds.
\* ret: the archive path or None; exc: the exception that leaves archive_file
archive_file(file_path, mk_ok, mv_ok) ==
    CHOOSE r \in {
        IF ~IsStr(archive_suffix) THEN [ret |-> PyNone, exc |-> TypeError, loc |-> loc]
        ELSE IF ~mk_ok THEN [ret |-> PyNone, exc |-> OSError, loc |-> loc]
        ELSE IF ~mv_ok \/ FileAt(file_path) = {} THEN [ret |-> PyNone, exc |-> PyNone, loc |-> loc]
        ELSE [ret |-> OsPathJoin(OsPathJoin(cfg.archive_path, Dirname(archive_suffix)), Basename(file_path)),
              exc |-> PyNone,
              loc |-> MoveTo(CHOOSE f \in FileAt(file_path) : TRUE,
                             OsPathJoin(OsPathJoin(cfg.archive_path, Dirname(archive_suffix)), Basename(file_path)))]
        : archive_suffix \in {_build_tgt_path(file_path)} } : TRUE

\* ------------------------------------------------------- _handle_event
\* parameters of upload_to_gcs without a default, after self: fd, object
UploadRequiredArgs == 2

\* positional arguments of the call self.upload_to_gcs(fd) in _handle_event
HandleEventUploadArgs == 1

\* is_uploaded = self.upload_to_gcs(fd) (line 185): how the call ends, one
\* element per outcome of the store.  ret: "True", "False" or "raise"
UploadCall(fd) ==
    IF HandleEventUploadArgs < UploadRequiredArgs
    THEN {[ret |-> "raise", exc |-> TypeError, store |-> store]}
    ELSE UNION {
        {IF plan.exc # PyNone
         THEN [ret |-> "raise", exc |-> plan.exc, store |-> plan.st]
         ELSE [ret |-> blob_upload(plan.st, plan.key, fd.file, ok).ret,
               exc |-> PyNone,
               store |-> blob_upload(plan.st, plan.key, fd.file, ok).st]
         : ok \in BOOLEAN}
        : plan \in {upload_to_gcs(fd, PyNone, PyNone, store, us) : us \in [1..RecursionLimit -> Uuids]}}

\* self.archive_file(event_path) (line 188), one element per outcome of the
\* file system
ArchiveCall(event_path) == {archive_file(event_path, mk_ok, mv_ok) : mk_ok \in BOOLEAN, mv_ok \in BOOLEAN}

\* lines 186-190 with the test of is_uploaded left out: archive_file is
\* called however the upload call ended
AfterUploadArchiveAlways(fd, u) ==
    {[verdict |-> IF u.ret = "raise" THEN "upload_raised"
                  ELSE IF u.ret = "False" THEN "upload_failed"
                  ELSE IF a.exc # PyNone THEN "archive_raised"
                  ELSE IF a.ret = PyNone THEN "archive_failed" ELSE "archived",
      exc |-> IF u.ret = "raise" THEN u.exc ELSE a.exc, store |-> u.store, loc |-> a.loc]
     : a \in ArchiveCall(fd.name)}

\* lines 186-190: what follows the upload call that ended as u.
\* verdict: how the attempt ended; exc: the exception that leaves _handle_event
AfterUpload(fd, u) ==
    IF u.ret = "raise"
    THEN {[verdict |-> "upload_raised", exc |-> u.exc, store |-> u.store, loc |-> loc]}
    ELSE IF u.ret = "True"
    THEN {[verdict |-> IF a.exc # PyNone THEN "archive_raised"
                       ELSE IF a.ret = PyNone THEN "archive_failed" ELSE "archived",
           exc |-> a.exc, store |-> u.store, loc |-> a.loc]
          : a \in ArchiveCall(fd.name)}
    ELSE {[verdict |-> "upload_failed", exc |-> PyNone, store |-> u.store, loc |-> loc]}

\* _handle_event(fd) with the test of st_size (line 169) left out
_handle_eventNoSizeTest(fd) ==
    IF \A f \in FileAt(fd.name) : FALSE
    THEN {[verdict |-> "stat_failed", exc |-> PyNone, store |-> store, loc |-> loc]}
    ELSE IF Contains(fd.name, cfg.archive_path)
    THEN {[verdict |-> "archive_path", exc |-> PyNone, store |-> store, loc |-> loc]}
    ELSE IF ~input_path(fd.name)
    THEN {[verdict |-> "invalid_path", exc |-> PyNone, store |-> store, loc |-> loc]}
    ELSE UNION {AfterUpload(fd, u) : u \in UploadCall(fd)}

\* the ways _handle_event(fd) can end
_handle_event(fd) ==
    IF \A f \in FileAt(fd.name) : FALSE
    THEN {[verdict |-> "stat_failed", exc |-> PyNone, store |-> store, loc |-> loc]}
    ELSE IF \E f \in FileAt(fd.name) : fsize[f] = 0
    THEN {[verdict |-> "empty", exc |-> PyNone, store |-> store, loc |-> loc]}
    ELSE IF Contains(fd.name, cfg.archive_path)
    THEN {[verdict |-> "archive_path", exc |-> PyNone, store |-> store, loc |-> loc]}
    ELSE IF ~input_path(fd.name)
    THEN {[verdict |-> "invalid_path", exc |-> PyNone, store |-> store, loc |-> loc]}
    ELSE UNION {AfterUpload(fd, u) : u \in UploadCall(fd)}

\* ------------------------------------------------------------ _file_lock
NoFd == [name |-> <<>>, file |-> "-"]

NoAttempt == [path |-> <<>>, result |-> "none"]

\* no direct call of a public method is under way
NoCall == [op |-> "none", phase |-> "-", fd |-> NoFd, first |-> PyNone, found |-> FALSE,
           key |-> PyNone, exc |-> PyNone, ret |-> "none", path |-> PyNone]

Unlocked == <<0, "none">>

\* fcntl.flock(fd, LOCK_EX | LOCK_NB) succeeds: nobody holds a lock on f
\* through another open file description
flock_ex_nb(f) == lock[f][2] = "none"

\* attributes of the object open(file_path, "rb+") returns
FileObjectAttrs == {"name", "close", "fileno", "read", "write", "seek", "flush"}

\* the finally block of _file_lock: fcntl.flock(fd.fcntl.LOCK_UN) looks up
\* fd.fcntl, which raises AttributeError, and fd.close() is not reached
_file_lock_finally ==
    IF "fcntl" \in FileObjectAttrs
    THEN [unlock |-> TRUE, close |-> TRUE, exc |-> PyNone]
    ELSE [unlock |-> FALSE, close |-> FALSE, exc |-> AttributeError]

\* the try statement of start() with every except clause left out: an
\* exception raised in a tick leaves start()
start_exceptNone(exc) == "propagated"

\* the except clauses of start() (lines 221-224): where the watcher is after
\* exc was raised inside the try block.  InterruptedError breaks the loop
\* and start() returns; any other Exception is logged and the while loop
\* begins its next pass; anything else leaves start() as an exception
start_except(exc) ==
    IF exc = InterruptedError THEN "returned"
    ELSE IF exc \in ExceptionClasses THEN "scan"
    ELSE "propagated"

\* the lock on f once p's handle on it has gone through the finally block
LockAfterFinally(p, f) ==
    IF lock[f] # <<p, "live">> THEN lock[f]
    ELSE IF _file_lock_finally.unlock \/ _file_lock_finally.close THEN Unlocked
    ELSE <<p, "leaked">>

\* _file_lock leaves after the file was opened: the finally block runs, then
\* either its exception goes up through handle_event and the generator
\* _process_all_files to the except clause of start(), which logs it and
\* starts the next pass of the while loop, or err is returned and yielded
\* and the for loop of _process_all_files goes on
LeaveFileLock(p, f) ==
    /\ lock' = [lock EXCEPT ![f] = LockAfterFinally(p, f)]
    /\ leaked' = [leaked EXCEPT ![p] = IF _file_lock_finally.close THEN @ ELSE @ \cup {f}]
    /\ cur' = [cur EXCEPT ![p] = NoFd]
    /\ IF _file_lock_finally.exc # PyNone
       THEN /\ pc' = [pc EXCEPT ![p] = start_except(_file_lock_finally.exc)]
            /\ queue' = [queue EXCEPT ![p] = <<>>]
       ELSE /\ pc' = [pc EXCEPT ![p] = IF Len(queue[p]) = 1 THEN "sleep" ELSE "open"]
            /\ queue' = [queue EXCEPT ![p] = Tail(@)]

\* --------------------------------------------------------------- start()
\* file_list of _process_all_files: the walked files in the directory order
FileList == SelectSeq(walk_order, LAMBDA f : f \in Walked)

PathsOf(fs) == [i \in 1..Len(fs) |-> WalkPath(fs[i])]

\* a pass of the while loop begins: os.walk fills file_list; the paths that
\* pass _filter_filename are the ones the for loop hands to handle_event
Scan(p) ==
    /\ pc[p] = "scan"
    /\ call[p] = NoCall
    /\ \E file_list \in UNION {{PathsOf(fs) \o <<>>} : fs \in {FileList}} :
         \E passed \in {{i \in 1..Len(file_list) : _filter_filename(file_list[i])}} :
            /\ queue' = [queue EXCEPT ![p] = SelectSeq(file_list, LAMBDA x : \E i \in passed : file_list[i] = x)]
            /\ cands' = [cands EXCEPT ![p] = {file_list[i] : i \in passed}]
    /\ handed' = [handed EXCEPT ![p] = {}]
    /\ last' = [last EXCEPT ![p] = NoAttempt]
    /\ pc' = [pc EXCEPT ![p] = IF queue'[p] = <<>> THEN "sleep" ELSE "open"]
    /\ UNCHANGED <<cfg, loc, fsize, readonly, lock, store, walk_order, cur, leaked, call>>

\* handle_event(file_path) enters _file_lock: open(file_path, "rb+")
Open(p) ==
    /\ pc[p] = "open"
    /\ handed' = [handed EXCEPT ![p] = @ \cup {queue[p][1]}]
    /\ \E there \in {FileAt(queue[p][1])} :
         \/ /\ \E f \in there : f \notin readonly /\ cur' = [cur EXCEPT ![p] = [name |-> queue[p][1], file |-> f]]
            /\ pc' = [pc EXCEPT ![p] = "flock"]
            /\ UNCHANGED <<queue, last>>
         \/ /\ \A f \in there : f \in readonly
            /\ last' = [last EXCEPT ![p] = [path |-> queue[p][1], result |-> "open_failed"]]
            /\ pc' = [pc EXCEPT ![p] = IF Len(queue[p]) = 1 THEN "sleep" ELSE "open"]
            /\ queue' = [queue EXCEPT ![p] = Tail(@)]
            /\ UNCHANGED cur
    /\ UNCHANGED <<cfg, loc, fsize, readonly, lock, store, walk_order, leaked, cands, call>>

\* fcntl.flock(fd, LOCK_EX | LOCK_NB); on BlockingIOError the except clause
\* keeps the error and the finally block runs
Flock(p) ==
    /\ pc[p] = "flock"
    /\ \/ /\ flock_ex_nb(cur[p].file)
          /\ lock' = [lock EXCEPT ![cur[p].file] = <<p, "live">>]
          /\ pc' = [pc EXCEPT ![p] = "handle"]
          /\ UNCHANGED <<queue, cur, leaked, last>>
       \/ /\ ~flock_ex_nb(cur[p].file)
          /\ last' = [last EXCEPT ![p] = [path |-> cur[p].name, result |-> "lock_failed"]]
          /\ LeaveFileLock(p, cur[p].file)
    /\ UNCHANGED <<cfg, loc, fsize, readonly, store, walk_order, cands, handed, call>>

\* func(fd) under the lock, then the finally block
HandleEvent(p) ==
    /\ pc[p] = "handle"
    /\ \E r \in _handle_event(cur[p]) :
         /\ store' = r.store
         /\ loc' = r.loc
         /\ last' = [last EXCEPT ![p] = [path |-> cur[p].name, result |-> r.verdict]]
    /\ LeaveFileLock(p, cur[p].file)
    /\ UNCHANGED <<cfg, fsize, readonly, walk_order, cands, handed, call>>

\* the generator is exhausted: time.sleep(sleep_timer_s), then the next pass
Sleep(p) ==
    /\ pc[p] = "sleep"
    /\ pc' = [pc EXCEPT ![p] = "scan"]
    /\ UNCHANGED <<cfg, loc, fsize, readonly, lock, store, walk_order, queue, cur, leaked, cands, handed, last, call>>

\* the interpreter reclaims the file objects _file_lock left open: closing
\* a file description drops the lock held through it
Collect(p) ==
    /\ leaked[p] # {}
    /\ leaked' = [leaked EXCEPT ![p] = {}]
    /\ lock' = [f \in FileIds |-> IF lock[f] = <<p, "leaked">> THEN Unlocked ELSE lock[f]]
    /\ UNCHANGED <<cfg, loc, fsize, readonly, store, walk_order, pc, queue, cur, cands, handed, last, call>>

\* the producer of f finishes writing and drops its lock
ProducerDone(f) ==
    /\ lock[f] = <<0, "producer">>
    /\ lock' = [lock EXCEPT ![f] = Unlocked]
    /\ UNCHANGED <<cfg, loc, fsize, readonly, store, walk_order, pc, queue, cur, leaked, cands, handed, last, call>>

\* -------------------------------------------------------- specification
\* what the producers have left of each file when the watchers start
FileStates == {"ready", "empty", "busy", "readonly"}

\* the directory of a file, as segments below the source root
DirOf(f) == SubSeq(RelSegs(f), 1, Len(RelSegs(f)) - 1)

\* os.walk is top-down: the files of a directory come before the files of
\* the directories below it
WalkOrders ==
    {o \in [1..Cardinality(FileIds) -> FileIds] :
        /\ \A f \in FileIds : \E i \in DOMAIN o : o[i] = f
        /\ \A i, j \in DOMAIN o :
             (IsPrefix(DirOf(o[i]), DirOf(o[j])) /\ DirOf(o[i]) # DirOf(o[j])) => i < j}

\* where the producer writes file f: RelSegs(f) below the source root
SourceLoc(f) == [abs |-> Resolve(cfg.src_path).abs, segs |-> Resolve(cfg.src_path).segs \o RelSegs(f)]

InitFiles(fst) ==
    /\ loc = [f \in FileIds |-> SourceLoc(f)]
    /\ fsize = [f \in FileIds |-> IF fst[f] = "empty" THEN 0 ELSE 1]
    /\ readonly = {f \in FileIds : fst[f] = "readonly"}
    /\ lock = [f \in FileIds |-> IF fst[f] = "busy" THEN <<0, "producer">> ELSE Unlocked]

InitWatchers ==
    /\ pc = [p \in Procs |-> "scan"]
    /\ queue = [p \in Procs |-> <<>>]
    /\ cur = [p \in Procs |-> NoFd]
    /\ leaked = [p \in Procs |-> {}]
    /\ cands = [p \in Procs |-> {}]
    /\ handed = [p \in Procs |-> {}]
    /\ last = [p \in Procs |-> NoAttempt]
    /\ call = [p \in Procs |-> NoCall]

\* the watchers are started as main starts them, without -f: file_type is
\* the argparse default None
Init ==
    /\ cfg \in {FileManager(a, b, PyNone) : a \in SrcArgs, b \in ArchiveArgs}
    /\ \E fst \in [FileIds -> FileStates] :
         /\ Cardinality({f \in FileIds : fst[f] # "ready"}) <= MaxOddFiles
         /\ InitFiles(fst)
    /\ store = EmptyStore
    /\ walk_order \in WalkOrders
    /\ InitWatchers

Next ==
    \/ \E p \in Procs : Scan(p)
    \/ \E p \in Procs : Open(p)
    \/ \E p \in Procs : Flock(p)
    \/ \E p \in Procs : HandleEvent(p)
    \/ \E p \in Procs : Sleep(p)
    \/ \E p \in Procs : Collect(p)
    \/ \E f \in FileIds : ProducerDone(f)

Spec == Init /\ [][Next]_vars

\* the next statement of watcher p
WatcherStep(p) == Scan(p) \/ Open(p) \/ Flock(p) \/ HandleEvent(p) \/ Sleep(p)

\* every watcher process keeps running its loop, the interpreter reclaims
\* unreachable file objects in the end, and every producer finishes
Fairness ==
    /\ \A p \in Procs : WF_vars(WatcherStep(p)) /\ WF_vars(Collect(p))
    /\ \A f \in FileIds : WF_vars(ProducerDone(f))

SpecFair == Init /\ [][Next]_vars /\ Fairness

\* ------------------------------------------------------ interrupt signal
\* SIGINT reaches watcher p while it is in the loop of start(): Python
\* raises KeyboardInterrupt at the statement p is at.  Inside the try block
\* of _file_lock (after the open) no except clause catches it and the
\* exception of the finally block, if it raises one, takes its place; then
\* the except clauses of start() decide.  A watcher that leaves start()
\* exits, and the system closes its handles and drops its locks.
Interrupt(p) ==
    /\ pc[p] \in {"scan", "open", "flock", "handle", "sleep"}
    /\ \E inside \in {pc[p] \in {"flock", "handle"}} :
         \E exc \in {IF inside /\ _file_lock_finally.exc # PyNone
                      THEN _file_lock_finally.exc ELSE KeyboardInterrupt} :
           \E to \in {start_except(exc)} :
             /\ pc' = [pc EXCEPT ![p] = to]
             /\ last' = [last EXCEPT ![p] = [path |-> cur[p].name, result |-> "interrupted"]]
             /\ IF to = "scan"
                THEN /\ lock' = IF inside
                                THEN [lock EXCEPT ![cur[p].file] = LockAfterFinally(p, cur[p].file)]
                                ELSE lock
                     /\ leaked' = IF inside /\ ~_file_lock_finally.close
                                  THEN [leaked EXCEPT ![p] = @ \cup {cur[p].file}]
                                  ELSE leaked
                ELSE /\ lock' = [f \in FileIds |-> IF lock[f][1] = p THEN Unlocked ELSE lock[f]]
                     /\ leaked' = [leaked EXCEPT ![p] = {}]
    /\ queue' = [queue EXCEPT ![p] = <<>>]
    /\ cur' = [cur EXCEPT ![p] = NoFd]
    /\ UNCHANGED <<cfg, loc, fsize, readonly, store, walk_order, cands, handed, call>>

NextSignal ==
    \/ Next
    \/ \E p \in Procs : Interrupt(p)

SpecSignal == Init /\ [][NextSignal]_vars

\* ------------------------------------------- direct calls of the methods
\* A caller outside start() holds a FileManager and calls upload_to_gcs or
\* archive_file itself, one call per caller.  An upload takes two steps, the
\* existence checks and then the write, and the callers' steps interleave.

\* what the bucket holds when the callers start: nothing, an object under
\* the key of one of the files, or the stub whose existence check answers
\* True once
InitStores ==
    {EmptyStore, [EmptyStore EXCEPT !.stub = TRUE]}
    \cup {[EmptyStore EXCEPT !.objs = {[key |-> _build_tgt_path(WalkPath(f)), file |-> "other"]}] : f \in FileIds}

\* upload_to_gcs(fd, object) up to the try block, fd an open file under the
\* source root
ApiUploadCheck(p) ==
    /\ pc[p] = "api"
    /\ call[p] = NoCall
    /\ \E f \in Walked, us \in [1..RecursionLimit -> Uuids] :
         \E fd \in {[name |-> WalkPath(f), file |-> f]} :
           \E plan \in {upload_to_gcs(fd, PyNone, PyNone, store, us)} :
             /\ store' = plan.st
             /\ call' = [call EXCEPT ![p] =
                           [NoCall EXCEPT !.op = "upload",
                                          !.phase = IF plan.exc = PyNone THEN "write" ELSE "done",
                                          !.fd = fd,
                                          !.first = _build_tgt_path(fd.name),
                                          !.found = _gcs_file_exists(store, _build_tgt_path(fd.name)),
                                          !.key = plan.key,
                                          !.exc = plan.exc,
                                          !.ret = IF plan.exc = PyNone THEN "none" ELSE "raise"]]
    /\ UNCHANGED <<cfg, loc, fsize, readonly, lock, walk_order, pc, queue, cur, leaked, cands, handed, last>>

\* the try block of upload_to_gcs; the stub's uploads succeed
ApiUploadWrite(p) ==
    /\ pc[p] = "api"
    /\ call[p].op = "upload"
    /\ call[p].phase = "write"
    /\ \E ok \in (IF store.stub THEN {TRUE} ELSE BOOLEAN) :
         \E r \in {blob_upload(store, call[p].key, call[p].fd.file, ok)} :
           /\ store' = r.st
           /\ call' = [call EXCEPT ![p].phase = "done", ![p].ret = r.ret]
    /\ UNCHANGED <<cfg, loc, fsize, readonly, lock, walk_order, pc, queue, cur, leaked, cands, handed, last>>

\* archive_file(file_path), file_path a file under the source root
ApiArchive(p) ==
    /\ pc[p] = "api"
    /\ call[p] = NoCall
    /\ \E f \in Walked, mk_ok \in BOOLEAN, mv_ok \in BOOLEAN :
         \E fd \in {[name |-> WalkPath(f), file |-> f]} :
           \E a \in {archive_file(fd.name, mk_ok, mv_ok)} :
             /\ loc' = a.loc
             /\ call' = [call EXCEPT ![p] =
                           [NoCall EXCEPT !.op = "archive",
                                          !.phase = "done",
                                          !.fd = fd,
                                          !.exc = a.exc,
                                          !.ret = IF a.exc # PyNone THEN "raise"
                                                  ELSE IF a.ret = PyNone THEN "None" ELSE "path",
                                          !.path = a.ret]]
    /\ UNCHANGED <<cfg, fsize, readonly, lock, store, walk_order, pc, queue, cur, leaked, cands, handed, last>>

InitApi ==
    /\ cfg \in {FileManager(a, b, t) : a \in SrcArgs, b \in ArchiveArgs, t \in FileTypeArgs}
    /\ InitFiles([f \in FileIds |-> "ready"])
    /\ store \in InitStores
    /\ walk_order = CHOOSE o \in WalkOrders : TRUE
    /\ pc = [p \in Procs |-> "api"]
    /\ queue = [p \in Procs |-> <<>>]
    /\ cur = [p \in Procs |-> NoFd]
    /\ leaked = [p \in Procs |-> {}]
    /\ cands = [p \in Procs |-> {}]
    /\ handed = [p \in Procs |-> {}]
    /\ last = [p \in Procs |-> NoAttempt]
    /\ call = [p \in Procs |-> NoCall]

NextApi ==
    \/ \E p \in Procs : ApiUploadCheck(p)
    \/ \E p \in Procs : ApiUploadWrite(p)
    \/ \E p \in Procs : ApiArchive(p)

SpecApi == InitApi /\ [][NextApi]_vars

\* ------------------------------------------------------- path derivation
\* names of directories and files below the source root
PathSegs == { <<"s">>, <<"x">>, <<"a", ".", "c">> }

\* the paths below the source root, as sequences of segments
RelPaths == UNION {[1..n -> PathSegs] : n \in 1..MaxSegs}

\* _extract_org_path, _extract_filepath_from_org and _build_tgt_path applied
\* to one path: the path below the source root as it stands, or with
\* src_path in front as _handle_event and archive_file get it
Derive ==
    /\ pc[1] = "api"
    /\ call[1] = NoCall
    /\ \E segs \in RelPaths, form \in {"relative", "full"} :
         \E file_path \in {(IF form = "full" THEN cfg.src_path ELSE <<>>) \o StrJoin(segs, "/")} :
           call' = [call EXCEPT ![1] =
                      [op |-> "derive", segs |-> segs \o <<>>, form |-> form, file_path |-> file_path,
                       org |-> _extract_org_path(file_path),
                       rest |-> _extract_filepath_from_org(file_path),
                       key |-> _build_tgt_path(file_path)]]
    /\ UNCHANGED <<cfg, loc, fsize, readonly, lock, store, walk_order, pc, queue, cur, leaked, cands, handed, last>>

InitPath ==
    /\ cfg \in {FileManager(a, b, t) : a \in SrcArgs, b \in ArchiveArgs, t \in FileTypeArgs}
    /\ InitFiles([f \in FileIds |-> "ready"])
    /\ store = EmptyStore
    /\ walk_order = CHOOSE o \in WalkOrders : TRUE
    /\ pc = [p \in Procs |-> "api"]
    /\ queue = [p \in Procs |-> <<>>]
    /\ cur = [p \in Procs |-> NoFd]
    /\ leaked = [p \in Procs |-> {}]
    /\ cands = [p \in Procs |-> {}]
    /\ handed = [p \in Procs |-> {}]
    /\ last = [p \in Procs |-> NoAttempt]
    /\ call = [p \in Procs |-> NoCall]

NextPath == Derive

SpecPath == InitPath /\ [][NextPath]_vars

\* ================================================================ claims

C2_UploadedAndArchived ==
    \A p \in Procs : last[p].result \in {"upload_raised", "archived"} =>
        /\ \E o \in store.objs : o.key = _build_tgt_path(last[p].path)
        /\ FileAt(last[p].path) = {}

\* C3: of two processing attempts running on the same file at once exactly
\* one takes the lock and runs _handle_event: no two watchers are in
\* _handle_event on one file, and when two watchers have both opened a
\* file and are about to call flock, the lock is not held through a handle
\* that no attempt is using, so that one of the two takes it.
C3_ExactlyOneLocks ==
    /\ \A p, q \in Procs : (p # q /\ pc[p] = "handle" /\ pc[q] = "handle") => cur[p].file # cur[q].file
    /\ \A p, q \in Procs : (p # q /\ pc[p] = "flock" /\ pc[q] = "flock" /\ cur[p].file = cur[q].file)
                             => lock[cur[p].file][2] # "leaked"

\* C4: once _file_lock has been left, the watcher holds no lock and has no
\* handle open on any file.
C4_ReleasedAndClosed ==
    \A p \in Procs : pc[p] \notin {"flock", "handle"} =>
        /\ leaked[p] = {}
        /\ \A f \in FileIds : lock[f][1] # p

\* C5: when a watcher is between two ticks, every path that passed the name
\* filter in the tick it left has been handed to handle_event.
C5_TickHandsEveryCandidate ==
    \A p \in Procs : pc[p] \in {"scan", "sleep"} => handed[p] = cands[p]

\* C6: no upload replaces an object of the bucket, and a call of
\* upload_to_gcs that found its key present goes on to attempt the upload
\* under another key.
C6_NeverOverwrites ==
    /\ ~store.clobbered
    /\ \A p \in Procs : (call[p].op = "upload" /\ call[p].found) =>
          (call[p].exc = PyNone /\ IsStr(call[p].key) /\ call[p].key # call[p].first)

\* C7: with the stub whose existence check answers True to the first key
\* and False afterwards, a finished call of upload_to_gcs has returned True
\* and the object is stored under directory/stem_hex-extension of the first
\* key, not under the first key.
C7_StubUploadsUnderRegeneratedKey ==
    \A p \in Procs : (store.stub /\ call[p].op = "upload" /\ call[p].phase = "done" /\ call[p].found) =>
        /\ call[p].ret = "True"
        /\ call[p].key # call[p].first
        /\ \E o \in store.objs : o.key = call[p].key
        /\ LET r == _replace_extensions(Basename(call[p].first))
           IN  /\ r # PyNone
               /\ \E u \in Uuids :
                    call[p].key = Dirname(call[p].first) \o <<"/">> \o r[1] \o <<"_">> \o u \o <<"-">> \o r[2]

\* C10: at the end of a tick the paths handed to handle_event are those of
\* the files under the source root whose name contains a "." and does not
\* start with one and that are not under the archive root.
C10_HandedAreTheVisibleFiles ==
    \A p \in Procs : pc[p] = "sleep" =>
        handed[p] = {WalkPath(f) : f \in {g \in Walked :
                        LET name == loc[g].segs[Len(loc[g].segs)]
                        IN  /\ Contains(name, <<".">>)
                            /\ ~StartsWith(name, <<".">>)
                            /\ ~Under(loc[g], Resolve(cfg.archive_path))}}

\* C11: no path that passed the name filter in a tick names a file that
\* lies under the archive root, and no processing attempt on such a file
\* gets past the archive test of _handle_event.
C11_ArchivedNeverCandidates ==
    \A p \in Procs :
        /\ \A path \in cands[p] : \A f \in FileAt(path) : ~Under(loc[f], Resolve(cfg.archive_path))
        /\ \A f \in FileAt(last[p].path) :
              Under(loc[f], Resolve(cfg.archive_path)) =>
                  last[p].result \in {"open_failed", "lock_failed", "stat_failed", "empty", "archive_path"}

\* C12: a file of size zero is never passed to upload_to_gcs and never
\* archived: it is where it was written, the bucket holds no object of it,
\* and every processing attempt that reached the upload call was on a file
\* that is not empty.
C12_EmptyFileLeftAlone ==
    /\ \A f \in FileIds : fsize[f] = 0 =>
          (loc[f] = SourceLoc(f) /\ \A o \in store.objs : o.file # f)
    /\ \A p \in Procs :
          last[p].result \in {"upload_raised", "upload_failed", "archived", "archive_failed", "archive_raised"} =>
              \A f \in FileAt(last[p].path) : fsize[f] # 0

\* a processing attempt found its file empty and returned
C12_Witness ==
    \E p \in Procs : last[p].result = "empty" /\ \E f \in FileAt(last[p].path) : fsize[f] = 0 /\ loc[f] = SourceLoc(f)

\* C13: every file that stays in the source tree and passes the name
\* filter is handed to handle_event again and again by every watcher.
C13_HandedInfinitelyOften ==
    \A p \in Procs : \A f \in FileIds :
        []<>((f \in Walked /\ _filter_filename(WalkPath(f))) => WalkPath(f) \in handed[p])

\* C14: no watcher ever leaves the loop of start(): whatever was raised
\* while a file was processed, the watcher is at a statement of the loop.
C14_LoopNeverLeft ==
    \A p \in Procs : pc[p] \in {"scan", "open", "flock", "handle", "sleep"}

\* an exception raised while a file was processed was caught by start()
\* and the watcher is at the start of its next pass
C14_Witness ==
    \E p \in Procs : pc[p] = "scan" /\ last[p].result = "upload_raised"

\* C19: a watcher comes to the start of a directory enumeration only from
\* the sleep that ends the pass before.
C19_SleepBeforeEveryScan ==
    [][\A p \in Procs : (pc'[p] = "scan" /\ pc[p] # "scan") => pc[p] = "sleep"]_vars

\* C15: a watcher that received the interrupt signal has left the loop and
\* start() has returned normally.
C15_InterruptEndsLoop ==
    \A p \in Procs : last[p].result = "interrupted" => pc[p] = "returned"

\* C16: with no fixed category, for a path of two or more segments below
\* the source root _extract_org_path returns the first segment and
\* _extract_filepath_from_org the other segments joined by "/"; for a path
\* of one segment _extract_org_path returns None and
\* _extract_filepath_from_org that segment.
C16_CategoryAndRemainder ==
    (call[1].op = "derive" /\ cfg.file_type = PyNone) =>
        IF Len(call[1].segs) >= 2
        THEN /\ call[1].org = call[1].segs[1]
             /\ call[1].rest = StrJoin(Tail(call[1].segs), "/")
        ELSE /\ call[1].org = PyNone
             /\ call[1].rest = call[1].segs[1]

\* C17: when the category resolves, the last segments of src_path followed
\* by the key of _build_tgt_path are the segments of the file's path below
\* the source root.
C17_KeyRoundTrips ==
    (call[1].op = "derive" /\ call[1].form = "full" /\ ~Falsy(call[1].org)) =>
        /\ IsStr(call[1].key)
        /\ LET ks == StrSplit(cfg.src_path \o call[1].key, "/")
               n == Len(call[1].segs)
           IN  Len(ks) >= n /\ SubSeq(ks, Len(ks) - n + 1, Len(ks)) = call[1].segs

\* C18: a call of archive_file never ends by an exception: when a step
\* failed it returned None and the file is where it was, and when it
\* succeeded it returned the path the file is at now.
C18_ArchiveNeverRaises ==
    \A p \in Procs : call[p].op = "archive" =>
        /\ call[p].exc = PyNone
        /\ call[p].ret \in {"None", "path"}
        /\ call[p].ret = "None" => \E f \in FileAt(call[p].fd.name) : f = call[p].fd.file
        /\ call[p].ret = "path" => IsStr(call[p].path)

\* C20: no file has been destroyed by an archive move: every file is still
\* either at its source path or in the archive.
C20_ArchiveKeepsEveryFile ==
    \A f \in FileIds : loc[f] # Gone

====
